---- MODULE Spec2Model ----
(***************************************************************************)
(* Model of the pipeline status client: the application shell (App.tsx)    *)
(* and the pipeline monitor (PipelineMonitor.tsx).  Both own a WebSocket;  *)
(* the monitor adds a connect watchdog, a reconnect timer and a teardown   *)
(* routine.  The browser is the environment: it opens, fails and closes    *)
(* sockets, delivers frames and fires timers, one task at a time.          *)
(***************************************************************************)
EXTENDS Integers, Sequences, FiniteSets, TLC

\* ---------------------------------------------------------------- bounds
MaxSockets == 4        \* sockets the client may create in one behaviour
MaxFrames == 2         \* inbound frames the peer delivers in one behaviour
MaxComponents == 3     \* length of a component list given to the ordered view
MaxOrder == 2          \* largest order value of such a component

\* ------------------------------------------------------ program constants
ConnectionTimeoutMs == 5000
ReconnectDelayMs == 3000

\* ------------------------------------------------------------ frame values
\* A component list as it arrives in a frame: name, and order, which is
\* optional (absent {} or present {n}).
CompsA == << [name |-> "B", order |-> {2}], [name |-> "A", order |-> {1}] >>

\* A flat data map: a set of (composite key, value) entries, the key spelled
\* as its characters.
DataA == { [key |-> <<"A", ".", "r">>, value |-> "10"] }

\* A decoded frame: every recognized key is absent ({}) or present ({v}).
\* ok = FALSE is a payload JSON.parse rejects.
Frame(ok, st, pidCamel, pidSnake, comps, dataCamel, dataSnake) ==
    [ok |-> ok, status |-> st, pipelineId |-> pidCamel, pipeline_id |-> pidSnake,
     components |-> comps, pipelineData |-> dataCamel, pipeline_data |-> dataSnake]

NoFrame == Frame(TRUE, {}, {}, {}, {}, {}, {})
FrameBad == Frame(FALSE, {}, {}, {}, {}, {}, {})
FrameAck == Frame(TRUE, {"connected"}, {}, {}, {}, {}, {})
FrameRun == Frame(TRUE, {"running"}, {}, {}, {CompsA}, {}, {})
FrameDataSnake == Frame(TRUE, {}, {}, {}, {}, {}, {DataA})
FrameDataCamel == Frame(TRUE, {}, {}, {}, {}, {DataA}, {})
FrameId1 == Frame(TRUE, {}, {"1"}, {}, {}, {}, {})
FrameIdSnake == Frame(TRUE, {}, {}, {"1"}, {}, {}, {})

Frames == {FrameBad, FrameAck, FrameRun, FrameDataSnake, FrameDataCamel,
           FrameId1, FrameIdSnake}

\* JavaScript truthiness of a string value: only the empty string is falsy.
Truthy(v) == v # ""

\* ------------------------------------------------------------------ state
VARIABLES
    app,        \* App's React state: status, pipelineId, components, pipelineData
    mon,        \* PipelineMonitor's React state and refs
    socks,      \* every WebSocket object the client has created
    timers,     \* pending setTimeout callbacks
    nextSock,   \* id of the next WebSocket object
    nextTimer,  \* id the next setTimeout returns
    frames,     \* inbound frames delivered so far
    threw,      \* the handler of the last task let an exception escape
    last        \* the last task: its event, socket and frame

vars == <<app, mon, socks, timers, nextSock, nextTimer, frames, threw, last>>

\* The part of the state the program's functions read and write.
World == [app |-> app, mon |-> mon, socks |-> socks, timers |-> timers,
          nextSock |-> nextSock, nextTimer |-> nextTimer, threw |-> FALSE]

\* ---------------------------------------------------------------- sockets
\* new WebSocket(url): CONNECTING, no handler attached yet. pid is the
\* identifier the handlers' closure holds; sent is what send() was given.
NewWebSocket(owner, pid) ==
    [owner |-> owner, readyState |-> "CONNECTING", onopen |-> FALSE,
     onmessage |-> FALSE, onerror |-> FALSE, onclose |-> FALSE,
     pid |-> pid, sent |-> <<>>, received |-> FALSE, failing |-> FALSE]

\* WebSocket.close(): a CONNECTING or OPEN socket starts closing; closing a
\* socket that never opened fails the connection (an error event precedes
\* the close event).
SocketClose(sk) ==
    IF sk.readyState \in {"CONNECTING", "OPEN"}
    THEN [sk EXCEPT !.readyState = "CLOSING",
                    !.failing = (sk.readyState = "CONNECTING")]
    ELSE sk

clearTimeout(ts, id) == {t \in ts : t.id # id}

\* ------------------------------------------------------ PipelineMonitor.tsx
\* (a.order || 0)
OrderOf(c) == IF c.order = {} THEN 0 ELSE CHOOSE n \in c.order : TRUE

\* A sort that puts a component before the components of equal order that
\* arrived earlier.
RECURSIVE SortByOrderUnstable(_)
SortByOrderUnstable(cs) ==
    IF cs = <<>> THEN <<>>
    ELSE LET c == cs[Len(cs)]
             sorted == SortByOrderUnstable(SubSeq(cs, 1, Len(cs) - 1))
             k == Cardinality({i \in 1..Len(sorted) : OrderOf(sorted[i]) < OrderOf(c)})
         IN  SubSeq(sorted, 1, k) \o <<c>> \o SubSeq(sorted, k + 1, Len(sorted))

\* components.sort((a, b) => (a.order || 0) - (b.order || 0)): a stable
\* sort, done in place on the array held in state.
RECURSIVE SortByOrder(_)
SortByOrder(cs) ==
    IF cs = <<>> THEN <<>>
    ELSE LET c == cs[Len(cs)]
             sorted == SortByOrder(SubSeq(cs, 1, Len(cs) - 1))
             k == Cardinality({i \in 1..Len(sorted) : OrderOf(sorted[i]) <= OrderOf(c)})
         IN  SubSeq(sorted, 1, k) \o <<c>> \o SubSeq(sorted, k + 1, Len(sorted))

\* The ordered view: timelineItems, one item per component of the sorted
\* array, here its name.
timelineItems(cs) ==
    LET sorted == SortByOrder(cs)
    IN  [i \in 1..Len(sorted) |-> sorted[i].name]

\* key.startsWith(prefix)
StartsWith(key, prefix) ==
    /\ Len(key) >= Len(prefix)
    /\ SubSeq(key, 1, Len(prefix)) = prefix

\* key.split('.')[1]: what lies between the first dot and the next dot (or
\* the end of the key). Applied only to keys that hold a dot.
SplitSecond(key) ==
    LET dots == {i \in 1..Len(key) : key[i] = "."}
        d1 == CHOOSE i \in dots : \A j \in dots : i <= j
        after == {i \in dots : i > d1}
        d2 == IF after = {} THEN Len(key) + 1
              ELSE CHOOSE i \in after : \A j \in after : i <= j
    IN  SubSeq(key, d1 + 1, d2 - 1)

\* getComponentData(componentName) over the data map: the entries are
\* returned as a set (the array's order is the map's insertion order).
getComponentData(data, componentName) ==
    {[key |-> SplitSecond(e.key), value |-> e.value] :
        e \in {x \in data : StartsWith(x.key, componentName \o <<".">>)}}

\* A render of the monitor: computing timelineItems sorts the state's
\* component array in place. After resetState that array is the very array
\* App holds in its own state (passed down as the components prop), so App's
\* list is sorted with it.
render(w) ==
    [w EXCEPT !.mon.components = SortByOrder(@),
              !.app.components = IF w.mon.componentsIsProp
                                 THEN SortByOrder(@) ELSE @]

\* resetState that forgets the data map.
resetStateKeepsData(w) ==
    [w EXCEPT !.mon.status = w.app.status,
              !.mon.components = w.app.components,
              !.mon.componentsIsProp = TRUE,
              !.mon.wsConnected = FALSE]

\* initialStatus and initialComponents are the props of the render whose
\* effect runs: App's status and components at that moment.
resetState(w) ==
    [w EXCEPT !.mon.status = w.app.status,
              !.mon.components = w.app.components,
              !.mon.componentsIsProp = TRUE,
              !.mon.wsConnected = FALSE,
              !.mon.pipelineData = {}]

\* cleanupWebSocket that forgets the reconnect timer.
cleanupWebSocketKeepsReconnect(w) ==
    LET w2 == IF w.mon.connectionTimeoutRef # 0
              THEN [w EXCEPT !.timers = clearTimeout(@, w.mon.connectionTimeoutRef),
                             !.mon.connectionTimeoutRef = 0]
              ELSE w
        s == w2.mon.wsRef
    IN  IF s # 0
        THEN [w2 EXCEPT !.socks[s] = SocketClose([@ EXCEPT !.onopen = FALSE,
                                                           !.onclose = FALSE,
                                                           !.onerror = FALSE,
                                                           !.onmessage = FALSE]),
                        !.mon.wsRef = 0]
        ELSE w2

cleanupWebSocket(w) ==
    LET w1 == IF w.mon.reconnectTimeoutRef # 0
              THEN [w EXCEPT !.timers = clearTimeout(@, w.mon.reconnectTimeoutRef),
                             !.mon.reconnectTimeoutRef = 0]
              ELSE w
        w2 == IF w1.mon.connectionTimeoutRef # 0
              THEN [w1 EXCEPT !.timers = clearTimeout(@, w1.mon.connectionTimeoutRef),
                              !.mon.connectionTimeoutRef = 0]
              ELSE w1
        s == w2.mon.wsRef
    IN  IF s # 0
        THEN [w2 EXCEPT !.socks[s] = SocketClose([@ EXCEPT !.onopen = FALSE,
                                                           !.onclose = FALSE,
                                                           !.onerror = FALSE,
                                                           !.onmessage = FALSE]),
                        !.mon.wsRef = 0]
        ELSE w2

\* connectWebSocket without its first line, the cleanup of the old
\* connection.
connectWebSocketNoCleanup(w) ==
    LET s == w.nextSock
        t == w.nextTimer
    IN  IF ~w.mon.isComponentMounted
        THEN w
        ELSE [w EXCEPT
                !.socks = @ @@ (s :> [NewWebSocket("monitor", w.mon.pipeline_id) EXCEPT
                                         !.onopen = TRUE, !.onmessage = TRUE,
                                         !.onerror = TRUE, !.onclose = TRUE]),
                !.nextSock = s + 1,
                !.mon.wsRef = s,
                !.mon.connectionTimeoutRef = t,
                !.timers = @ \cup {[id |-> t, kind |-> "watchdog", sock |-> s,
                                    delay |-> ConnectionTimeoutMs]},
                !.nextTimer = t + 1]

connectWebSocket(w) ==
    LET w1 == cleanupWebSocket(w)
        s == w1.nextSock
        t == w1.nextTimer
    IN  IF ~w1.mon.isComponentMounted
        THEN w1
        ELSE [w1 EXCEPT
                !.socks = @ @@ (s :> [NewWebSocket("monitor", w1.mon.pipeline_id) EXCEPT
                                         !.onopen = TRUE, !.onmessage = TRUE,
                                         !.onerror = TRUE, !.onclose = TRUE]),
                !.nextSock = s + 1,
                !.mon.wsRef = s,
                !.mon.connectionTimeoutRef = t,
                !.timers = @ \cup {[id |-> t, kind |-> "watchdog", sock |-> s,
                                    delay |-> ConnectionTimeoutMs]},
                !.nextTimer = t + 1]

\* The watchdog callback armed by connectWebSocket for socket s.
connectionTimeout(w, s) ==
    IF w.socks[s].readyState # "OPEN"
    THEN LET w1 == cleanupWebSocket(w)
         IN  IF w1.mon.isComponentMounted
             THEN [w1 EXCEPT !.mon.status = "error"]
             ELSE w1
    ELSE w

\* onopen that leaves the watchdog armed.
wsOnOpenKeepsWatchdog(w, s) ==
    IF w.mon.isComponentMounted
    THEN [w EXCEPT !.mon.wsConnected = TRUE,
                   !.socks[s].sent = Append(@, [pipeline_id |-> w.socks[s].pid])]
    ELSE w

wsOnOpen(w, s) ==
    IF w.mon.isComponentMounted
    THEN [w EXCEPT !.mon.wsConnected = TRUE,
                   !.timers = IF w.mon.connectionTimeoutRef # 0
                              THEN clearTimeout(@, w.mon.connectionTimeoutRef)
                              ELSE @,
                   !.socks[s].sent = Append(@, [pipeline_id |-> w.socks[s].pid])]
    ELSE w

wsOnMessage(w, s, f) ==
    IF ~w.mon.isComponentMounted THEN w
    ELSE IF ~f.ok THEN w      \* JSON.parse throws; the catch logs it
    ELSE [w EXCEPT
            !.mon.status = IF \E v \in f.status : Truthy(v)
                           THEN CHOOSE v \in f.status : TRUE ELSE @,
            !.mon.components = IF f.components # {}
                               THEN CHOOSE v \in f.components : TRUE ELSE @,
            !.mon.componentsIsProp = IF f.components # {} THEN FALSE ELSE @,
            !.mon.pipelineData = IF f.pipeline_data # {}
                                 THEN CHOOSE v \in f.pipeline_data : TRUE ELSE @]

\* onerror that only logs.
wsOnErrorOnlyLogs(w, s) == w

wsOnError(w, s) ==
    IF ~w.mon.isComponentMounted THEN w
    ELSE [w EXCEPT !.mon.status = "error"]

\* onclose that leaves the connected indicator as it is.
wsOnCloseKeepsConnected(w, s) ==
    IF ~w.mon.isComponentMounted THEN w
    ELSE LET t == w.nextTimer
         IN  IF w.mon.isComponentMounted /\ w.mon.wsRef = s
             THEN [w EXCEPT
                     !.mon.reconnectTimeoutRef = t,
                     !.timers = @ \cup {[id |-> t, kind |-> "reconnect", sock |-> s,
                                         delay |-> ReconnectDelayMs]},
                     !.nextTimer = t + 1]
             ELSE w

\* onclose that reports the close as an error.
wsOnCloseSetsError(w, s) ==
    IF ~w.mon.isComponentMounted THEN w
    ELSE LET w1 == [w EXCEPT !.mon.wsConnected = FALSE, !.mon.status = "error"]
             t == w1.nextTimer
         IN  IF w1.mon.isComponentMounted /\ w1.mon.wsRef = s
             THEN [w1 EXCEPT
                     !.mon.reconnectTimeoutRef = t,
                     !.timers = @ \cup {[id |-> t, kind |-> "reconnect", sock |-> s,
                                         delay |-> ReconnectDelayMs]},
                     !.nextTimer = t + 1]
             ELSE w1

wsOnClose(w, s) ==
    IF ~w.mon.isComponentMounted THEN w
    ELSE LET w1 == [w EXCEPT !.mon.wsConnected = FALSE]
             t == w1.nextTimer
         IN  IF w1.mon.isComponentMounted /\ w1.mon.wsRef = s
             THEN [w1 EXCEPT
                     !.mon.reconnectTimeoutRef = t,
                     !.timers = @ \cup {[id |-> t, kind |-> "reconnect", sock |-> s,
                                         delay |-> ReconnectDelayMs]},
                     !.nextTimer = t + 1]
             ELSE w1

\* useEffect(..., [pipeline_id]) of the monitor: the effect and its cleanup.
\* The effect's closure sees the props of the render that scheduled it.
monitorEffect(w) ==
    connectWebSocket(resetState(
        [w EXCEPT !.mon.isComponentMounted = TRUE,
                  !.mon.pipeline_id = w.app.pipelineId]))

\* An effect that returns no cleanup.
monitorEffectCleanupMissing(w) == w

monitorEffectCleanup(w) ==
    cleanupWebSocket([w EXCEPT !.mon.isComponentMounted = FALSE])

\* ----------------------------------------------------------------- App.tsx
appEffect(w) ==
    LET s == w.nextSock
    IN  [w EXCEPT
           !.socks = @ @@ (s :> [NewWebSocket("app", w.app.pipelineId) EXCEPT
                                    !.onopen = TRUE, !.onmessage = TRUE,
                                    !.onerror = TRUE]),
           !.nextSock = s + 1,
           !.app.websocket = s]

appEffectCleanup(w) ==
    [w EXCEPT !.socks[w.app.websocket] = SocketClose(@)]

\* A change of pipelineId re-runs both effects: every cleanup first, then
\* every effect, the child (monitor) before the parent (App).
rerunEffects(w) ==
    appEffect(monitorEffect(appEffectCleanup(monitorEffectCleanup(w))))

handleOpen(w, s) ==
    [w EXCEPT !.socks[s].sent = Append(@, [pipeline_id |-> w.socks[s].pid])]

\* The setters called by one handler run are applied together, in one
\* render. The state setters of an unmounted component change nothing.
handleMessage(w, s, f) ==
    IF ~f.ok THEN [w EXCEPT !.threw = TRUE]   \* JSON.parse throws, uncaught
    ELSE IF f.status = {"connected"} THEN w
    ELSE IF ~w.app.mounted THEN w
    ELSE LET w1 == [w EXCEPT
                      !.app.status = IF \E v \in f.status : Truthy(v)
                                     THEN CHOOSE v \in f.status : TRUE ELSE @,
                      !.app.pipelineId = IF \E v \in f.pipelineId : Truthy(v)
                                         THEN CHOOSE v \in f.pipelineId : TRUE ELSE @,
                      !.app.components = IF f.components # {}
                                         THEN CHOOSE v \in f.components : TRUE ELSE @,
                      !.mon.componentsIsProp = IF f.components # {} THEN FALSE ELSE @,
                      !.app.pipelineData = IF f.pipelineData # {}
                                           THEN CHOOSE v \in f.pipelineData : TRUE
                                           ELSE @]
         IN  IF w1.app.pipelineId # w.app.pipelineId THEN rerunEffects(w1) ELSE w1

handleError(w, s) ==
    IF w.app.mounted THEN [w EXCEPT !.app.status = "error"] ELSE w

\* ------------------------------------------------------- handler dispatch
OnOpen(w, s) ==
    IF ~w.socks[s].onopen THEN w
    ELSE IF w.socks[s].owner = "monitor" THEN wsOnOpen(w, s) ELSE handleOpen(w, s)

OnMessage(w, s, f) ==
    IF ~w.socks[s].onmessage THEN w
    ELSE IF w.socks[s].owner = "monitor" THEN wsOnMessage(w, s, f)
    ELSE handleMessage(w, s, f)

OnError(w, s) ==
    IF ~w.socks[s].onerror THEN w
    ELSE IF w.socks[s].owner = "monitor" THEN wsOnError(w, s) ELSE handleError(w, s)

OnClose(w, s) ==
    IF ~w.socks[s].onclose THEN w
    ELSE wsOnClose(w, s)

\* ------------------------------------------------------------------- Init
\* The state after the first render's effects: the monitor's effect, then
\* App's.
\* pipelineData starts as null, written {} here.
InitApp == [status |-> "initialized", pipelineId |-> "0", components |-> <<>>,
            pipelineData |-> {}, websocket |-> 0, mounted |-> TRUE]

InitMon == [status |-> "initialized", components |-> <<>>,
            componentsIsProp |-> TRUE, wsConnected |-> FALSE,
            pipelineData |-> {}, wsRef |-> 0, reconnectTimeoutRef |-> 0,
            connectionTimeoutRef |-> 0, isComponentMounted |-> TRUE,
            pipeline_id |-> "0"]

InitWorld ==
    appEffect(monitorEffect(
        [app |-> InitApp, mon |-> InitMon, socks |-> <<>>,
         timers |-> {}, nextSock |-> 1, nextTimer |-> 1, threw |-> FALSE]))

\* What the last task was: the event, its socket, its frame, and whether the
\* task changed pipelineId (and so re-ran the effects).
Event(ev, s, f, changed) == [ev |-> ev, sock |-> s, frame |-> f, idChanged |-> changed]

Init ==
    /\ app = InitWorld.app
    /\ mon = InitWorld.mon
    /\ socks = InitWorld.socks
    /\ timers = InitWorld.timers
    /\ nextSock = InitWorld.nextSock
    /\ nextTimer = InitWorld.nextTimer
    /\ frames = 0
    /\ threw = FALSE
    /\ last = Event("mount", 0, NoFrame, FALSE)

\* ---------------------------------------------------------------- actions
\* The state a task leaves: the handler's updates, then the render they
\* cause.
Commit(w) ==
    /\ app' = render(w).app
    /\ mon' = render(w).mon
    /\ socks' = w.socks
    /\ timers' = w.timers
    /\ nextSock' = w.nextSock
    /\ nextTimer' = w.nextTimer
    /\ threw' = w.threw

\* The connection is established: readyState becomes OPEN and open fires.
NetOpen(s) ==
    /\ socks[s].readyState = "CONNECTING"
    /\ Commit(OnOpen([World EXCEPT !.socks[s].readyState = "OPEN"], s))
    /\ last' = Event("open", s, NoFrame, FALSE)
    /\ UNCHANGED frames

\* A frame arrives on an open socket. A frame that changes App's pipelineId
\* re-runs the effects, which creates two sockets.
NetMessage(s, f) ==
    /\ socks[s].readyState = "OPEN"
    /\ frames < MaxFrames
    /\ LET w == OnMessage([World EXCEPT !.socks[s].received = TRUE], s, f)
       IN  /\ w.nextSock <= MaxSockets + 1
           /\ Commit(w)
           /\ last' = Event("message", s, f, w.app.pipelineId # app.pipelineId)
    /\ frames' = frames + 1

\* The connection fails (refused, reset, lost during the closing handshake):
\* readyState becomes CLOSED, error fires, then close, in one task.
NetFail(s) ==
    /\ socks[s].readyState \in {"CONNECTING", "OPEN", "CLOSING"}
    /\ Commit(OnClose(OnError([World EXCEPT !.socks[s].readyState = "CLOSED"], s), s))
    /\ last' = Event("fail", s, NoFrame, FALSE)
    /\ UNCHANGED frames

\* The peer closes an open connection: readyState becomes CLOSED, close fires.
NetClose(s) ==
    /\ socks[s].readyState = "OPEN"
    /\ Commit(OnClose([World EXCEPT !.socks[s].readyState = "CLOSED"], s))
    /\ last' = Event("close", s, NoFrame, FALSE)
    /\ UNCHANGED frames

\* A close the client asked for completes; a socket that was closed before
\* it opened fires error first.
NetClosed(s) ==
    /\ socks[s].readyState = "CLOSING"
    /\ LET w0 == [World EXCEPT !.socks[s].readyState = "CLOSED"]
           w1 == IF socks[s].failing THEN OnError(w0, s) ELSE w0
       IN  Commit(OnClose(w1, s))
    /\ last' = Event("closed", s, NoFrame, FALSE)
    /\ UNCHANGED frames

\* The watchdog timer fires.
WatchdogFires(t) ==
    /\ t \in timers
    /\ t.kind = "watchdog"
    /\ Commit(connectionTimeout([World EXCEPT !.timers = @ \ {t}], t.sock))
    /\ last' = Event("watchdog", t.sock, NoFrame, FALSE)
    /\ UNCHANGED frames

\* The reconnect timer fires: connectWebSocket().
ReconnectFires(t) ==
    /\ t \in timers
    /\ t.kind = "reconnect"
    /\ nextSock <= MaxSockets
    /\ Commit(connectWebSocket([World EXCEPT !.timers = @ \ {t}]))
    /\ last' = Event("reconnect", t.sock, NoFrame, FALSE)
    /\ UNCHANGED frames

\* The tree is unmounted: both effect cleanups run.
Unmount ==
    /\ app.mounted
    /\ Commit([appEffectCleanup(monitorEffectCleanup(World)) EXCEPT
                 !.app.mounted = FALSE])
    /\ last' = Event("unmount", 0, NoFrame, FALSE)
    /\ UNCHANGED frames

Next ==
    \/ \E s \in DOMAIN socks : NetOpen(s)
    \/ \E s \in DOMAIN socks, f \in Frames : NetMessage(s, f)
    \/ \E s \in DOMAIN socks : NetFail(s)
    \/ \E s \in DOMAIN socks : NetClose(s)
    \/ \E s \in DOMAIN socks : NetClosed(s)
    \/ \E t \in timers : WatchdogFires(t)
    \/ \E t \in timers : ReconnectFires(t)
    \/ Unmount

Spec == Init /\ [][Next]_vars

\* ------------------------------------------------- the views, on their own
\* The ordered component view and getComponentData are functions of the
\* snapshot. Here the snapshot is any bounded component list or data map,
\* as a frame (or resetState) has just stored it, and the steps are a
\* render and a call of getComponentData.
ComponentNames == {"A", "B", "C"}
ComponentValues ==
    [name : ComponentNames, order : {{}} \cup {{n} : n \in 0..MaxOrder}]
ComponentLists ==
    UNION {[1..n -> ComponentValues] : n \in 0..MaxComponents}

DataKeys == {<<"A", ".", "r">>, <<"B", ".", "r">>, <<"A", ".", "r", ".", "x">>,
             <<"A", "B", ".", "r">>}
DataMaps ==
    {m \in SUBSET [key : DataKeys, value : {"10", "5"}] :
        \A e1, e2 \in m : e1.key = e2.key => e1 = e2}
QueryNames == {<<"A">>, <<"B">>, <<"A", "B">>}

ViewEvent(ev, name, result) == [ev |-> ev, name |-> name, result |-> result]

InitView ==
    /\ \E cs \in ComponentLists, isProp \in BOOLEAN, dm \in DataMaps :
          /\ cs = <<>> \/ dm = {}
          /\ app = [InitWorld.app EXCEPT !.components = cs]
          /\ mon = [InitWorld.mon EXCEPT !.components = cs,
                                         !.componentsIsProp = isProp,
                                         !.pipelineData = dm]
    /\ socks = InitWorld.socks
    /\ timers = InitWorld.timers
    /\ nextSock = InitWorld.nextSock
    /\ nextTimer = InitWorld.nextTimer
    /\ frames = 0
    /\ threw = FALSE
    /\ last = ViewEvent("update", <<>>, <<>>)

\* The monitor renders: timelineItems is computed.
RenderView ==
    /\ Commit(World)
    /\ last' = ViewEvent("render", <<>>, timelineItems(mon.components))
    /\ UNCHANGED frames

\* The render calls getComponentData for a component name.
GetComponentDataView(name) ==
    /\ last' = ViewEvent("getComponentData", name,
                         getComponentData(mon.pipelineData, name))
    /\ UNCHANGED <<app, mon, socks, timers, nextSock, nextTimer, frames, threw>>

NextView ==
    \/ RenderView
    \/ \E name \in QueryNames : GetComponentDataView(name)

SpecView == InitView /\ [][NextView]_vars

\* ------------------------------------------------------------- vocabulary
Live(s) == socks[s].readyState \in {"CONNECTING", "OPEN"}
MonitorSockets == {s \in DOMAIN socks : socks[s].owner = "monitor"}
AppSockets == {s \in DOMAIN socks : socks[s].owner = "app"}
ReconnectTimers == {t \in timers : t.kind = "reconnect"}
WatchdogTimers == {t \in timers : t.kind = "watchdog"}
MonSnapshot == <<mon.status, mon.components, mon.pipelineData>>
AppSnapshot == <<app.status, app.components, app.pipelineData>>
\* Shutdown is requested by unmounting; a change of identifier re-arms the
\* monitor in the same task.
ShutdownRequested == ~app.mounted

TypeOK ==
    /\ nextSock \in 1..(MaxSockets + 1)
    /\ DOMAIN socks = 1..(nextSock - 1)
    /\ frames \in 0..MaxFrames
    /\ mon.wsRef \in {0} \cup MonitorSockets
    /\ app.websocket \in AppSockets
    /\ \A t \in timers : t.id < nextTimer /\ t.sock \in MonitorSockets

\* ------------------------------------------------------------------ C1
\* C1: unless shutdown was requested, the monitor always has a socket that
\* is connecting or open, or a pending reconnect timer: retry never stops
\* on its own.
C1_RetryNeverStops ==
    ~ShutdownRequested =>
        \/ \E s \in MonitorSockets : Live(s)
        \/ ReconnectTimers # {}

\* ------------------------------------------------------------------ C2
\* C2: when the watchdog fires on a socket that has not opened, the socket
\* is torn down, status is 'error' and exactly one reconnect timer is
\* pending.
C2_TimeoutSchedulesOneReconnect ==
    (last.ev = "watchdog" /\ socks[last.sock].readyState # "OPEN") =>
        /\ ~Live(last.sock)
        /\ mon.status = "error"
        /\ Cardinality(ReconnectTimers) = 1

\* ------------------------------------------------------------------ C3
\* C3: once shutdown was requested, no task (socket event or timer) changes
\* the monitor's status, components, pipelineData or wsConnected.
C3_InertAfterShutdown ==
    [][(ShutdownRequested \/ ~mon.isComponentMounted) =>
          /\ MonSnapshot' = MonSnapshot
          /\ mon'.wsConnected = mon.wsConnected]_vars

\* A socket of the monitor that was still closing at shutdown has closed
\* after it, and the snapshot held data when shutdown came.
C3_Witness ==
    /\ ShutdownRequested
    /\ last.ev = "closed"
    /\ last.sock \in MonitorSockets
    /\ mon.status = "running"

\* ------------------------------------------------------------------ C4
\* C4: at most one socket is connecting or open per subscription
\* identifier, over the monitor's and App's sockets together.
C4_OneSocketPerIdentifier ==
    \A s1, s2 \in DOMAIN socks :
        (Live(s1) /\ Live(s2) /\ socks[s1].pid = socks[s2].pid) => s1 = s2

FrameHasData(f) == f.pipelineData # {} \/ f.pipeline_data # {}

\* C6: a frame without status (components, data map) leaves the status
\* (components, data map) of the snapshot it is merged into as it was: the
\* monitor's for a frame on the monitor's socket, App's for a frame on
\* App's socket.
C6_PartialMerge ==
    [][last'.ev = "message" =>
         LET f == last'.frame
             s == last'.sock
         IN  /\ socks[s].owner = "monitor" =>
                   /\ f.status = {} => mon'.status = mon.status
                   /\ f.components = {} => mon'.components = mon.components
                   /\ ~FrameHasData(f) => mon'.pipelineData = mon.pipelineData
             /\ socks[s].owner = "app" =>
                   /\ f.status = {} => app'.status = app.status
                   /\ f.components = {} => app'.components = app.components
                   /\ ~FrameHasData(f) => app'.pipelineData = app.pipelineData]_vars

\* ------------------------------------------------------------------ C7
\* C7: the frame {"status": "connected"} changes no snapshot field, in the
\* monitor and in App.
C7_AckChangesNothing ==
    [][(last'.ev = "message" /\ last'.frame = FrameAck) =>
          /\ MonSnapshot' = MonSnapshot
          /\ AppSnapshot' = AppSnapshot]_vars

\* ------------------------------------------------------------------ C8
\* C8: when the close event of the monitor's current socket is delivered
\* before shutdown, exactly one reconnect timer of 3000 ms is pending
\* afterwards, held in reconnectTimeoutRef, and a close without an error
\* leaves status as it was; after shutdown no reconnect timer is pending.
C8_CloseSchedulesReconnect ==
    [][/\ (last'.ev \in {"close", "fail"} /\ last'.sock = mon.wsRef
            /\ ~ShutdownRequested) =>
             /\ Cardinality(ReconnectTimers') = 1
             /\ \A t \in ReconnectTimers' :
                   /\ t.delay = 3000
                   /\ t.id = mon'.reconnectTimeoutRef
                   /\ t.sock = last'.sock
             /\ last'.ev = "close" => mon'.status = mon.status
       /\ ShutdownRequested' => ReconnectTimers' = {}]_vars

\* The peer closed the socket while status was running: status is still
\* running and the reconnect timer is pending.
C8_Witness ==
    /\ last.ev = "close"
    /\ last.sock \in MonitorSockets
    /\ mon.status = "running"
    /\ Cardinality(ReconnectTimers) = 1

\* ------------------------------------------------------------------ C9
\* C9: when a socket opens, the watchdog of its attempt is no longer
\* pending and exactly one handshake frame, carrying the current
\* identifier, has been sent on it; no socket processes an inbound frame
\* before its handshake, and none sends a second one.
C9_HandshakeOnOpen ==
    /\ last.ev = "open" =>
          /\ socks[last.sock].sent = << [pipeline_id |-> app.pipelineId] >>
          /\ ~socks[last.sock].received
          /\ ~\E t \in WatchdogTimers : t.sock = last.sock
    /\ \A s \in DOMAIN socks :
          /\ Len(socks[s].sent) <= 1
          /\ socks[s].received => Len(socks[s].sent) = 1
          /\ socks[s].readyState = "OPEN" => Len(socks[s].sent) = 1

\* The monitor's socket of a later attempt opened after the identifier had
\* changed.
C9_Witness ==
    /\ last.ev = "open"
    /\ last.sock \in MonitorSockets
    /\ last.sock > 1
    /\ app.pipelineId = "1"
    /\ mon.wsConnected

\* ----------------------------------------------------------------- C10
\* C10: a frame that fails to decode changes no snapshot, leaves the socket
\* open, schedules no reconnect, and no exception escapes the handler.
C10_DecodeFailureIgnored ==
    [][(last'.ev = "message" /\ ~last'.frame.ok) =>
          /\ MonSnapshot' = MonSnapshot
          /\ AppSnapshot' = AppSnapshot
          /\ socks'[last'.sock].readyState = "OPEN"
          /\ timers' = timers
          /\ ~threw']_vars

\* ----------------------------------------------------------------- C11
\* C11: when the connection of the monitor's current, open socket fails
\* before shutdown, the task that delivers the error event (and the close
\* event that follows it) leaves status = 'error', wsConnected = false and
\* exactly one reconnect timer pending.
C11_ErrorSchedulesReconnect ==
    [][(last'.ev = "fail" /\ last'.sock = mon.wsRef
        /\ socks[last'.sock].readyState = "OPEN" /\ ~ShutdownRequested) =>
          /\ mon'.status = "error"
          /\ ~mon'.wsConnected
          /\ mon'.wsRef = last'.sock
          /\ Cardinality(ReconnectTimers') = 1
          /\ \A t \in ReconnectTimers' : t.id = mon'.reconnectTimeoutRef]_vars

\* The connection failed after the socket had opened and a frame had set
\* status to running.
C11_Witness ==
    /\ last.ev = "fail"
    /\ last.sock = mon.wsRef
    /\ Len(socks[last.sock].sent) = 1
    /\ Len(mon.components) = 2
    /\ mon.status = "error"

\* ----------------------------------------------------------------- C12
Detached(s) ==
    /\ ~socks[s].onopen
    /\ ~socks[s].onmessage
    /\ ~socks[s].onerror
    /\ ~socks[s].onclose

\* C12: after shutdown no timer is pending, wsRef is cleared, every socket
\* of the monitor is detached (no handler of it can run when its close
\* completes) and none is connecting or open, and no step creates a socket.
C12_InertAfterShutdown ==
    [][ShutdownRequested' =>
          /\ timers' = {}
          /\ mon'.wsRef = 0
          /\ ~mon'.isComponentMounted
          /\ \A s \in DOMAIN socks' :
                socks'[s].owner = "monitor" =>
                    /\ ~socks'[s].onopen /\ ~socks'[s].onmessage
                    /\ ~socks'[s].onerror /\ ~socks'[s].onclose
                    /\ socks'[s].readyState \in {"CLOSING", "CLOSED"}
          /\ nextSock' = nextSock
          /\ DOMAIN socks' = DOMAIN socks]_vars

\* Shutdown came after a connection that had been open was lost and a later
\* attempt had been made; a socket detached by the teardown has since
\* closed or failed.
C12_Witness ==
    /\ ShutdownRequested
    /\ last.ev \in {"closed", "fail"}
    /\ \E s \in MonitorSockets :
          /\ Len(socks[s].sent) = 1
          /\ socks[s].readyState = "CLOSED"
    /\ \E s \in MonitorSockets : s > 1 /\ Detached(s)
    /\ mon.reconnectTimeoutRef = 0
    /\ nextTimer > 2

\* ----------------------------------------------------------------- C13
\* out is in_ in ascending order (an absent order counts as 0), components
\* of equal order in the order they have in in_.
IsStableSortOf(in_, out) ==
    /\ Len(out) = Len(in_)
    /\ \E p \in Permutations(1..Len(in_)) :
          /\ \A i \in 1..Len(in_) : out[i] = in_[p[i]]
          /\ \A i, j \in 1..Len(in_) :
                i < j =>
                    \/ OrderOf(in_[p[i]]) < OrderOf(in_[p[j]])
                    \/ /\ OrderOf(in_[p[i]]) = OrderOf(in_[p[j]])
                       /\ p[i] < p[j]

\* C13: the ordered view lists the stored components by order ascending,
\* components of equal order in arrival order, a component without order
\* counting as order 0.
C13_OrderedView ==
    [][last'.ev = "render" =>
          /\ IsStableSortOf(mon.components, mon'.components)
          /\ last'.result = [i \in 1..Len(mon.components) |-> mon'.components[i].name]]_vars

\* [{B,2},{A,1}] was rendered as [A, B]; the caller's own array, not shared
\* with the monitor here, still shows the arrival order.
C13_Witness ==
    /\ last.ev = "render"
    /\ ~mon.componentsIsProp
    /\ app.components = CompsA
    /\ last.result = <<"A", "B">>

\* ----------------------------------------------------------------- C14
\* C14: getComponentData(name) returns exactly the entries whose key starts
\* with name + ".", each with that prefix, and nothing else, removed from
\* its key and its value unchanged.
C14_ComponentFields ==
    last.ev = "getComponentData" =>
        last.result =
            {[key |-> SubSeq(e.key, Len(last.name) + 2, Len(e.key)), value |-> e.value] :
                e \in {x \in mon.pipelineData :
                          StartsWith(x.key, last.name \o <<".">>)}}

\* ----------------------------------------------------------------- C17
\* C17: computing the ordered view changes neither the stored component
\* sequence nor the caller's component list.
C17_ViewLeavesSnapshot ==
    [][last'.ev = "render" =>
          /\ mon'.components = mon.components
          /\ app'.components = app.components]_vars

\* ----------------------------------------------------------------- C15
StatusValues == {"initialized", "running", "paused", "completed", "error"}

\* C15: the monitor's status is always one of initialized, running, paused,
\* completed, error.
C15_StatusInRange == mon.status \in StatusValues

\* ----------------------------------------------------------------- C16
SocketEvents == {"open", "message", "fail", "close", "closed"}

\* C16: an event of a socket that is neither the monitor's current socket
\* nor App's current socket changes nothing: not the monitor's snapshot, not
\* App's snapshot, not the identifier.
C16_SupersededSocketIsMute ==
    [][(/\ last'.ev \in SocketEvents
        /\ last'.sock # mon.wsRef
        /\ last'.sock # app.websocket
        /\ ~ShutdownRequested) =>
          /\ MonSnapshot' = MonSnapshot
          /\ AppSnapshot' = AppSnapshot
          /\ app'.pipelineId = app.pipelineId]_vars

\* ----------------------------------------------------------------- C18
\* C18: a frame on the monitor's current socket that carries the data map
\* under either spelling (pipelineData, pipeline_data) replaces the
\* monitor's data map, and a frame on App's current socket that carries the
\* identifier under either spelling (pipelineId, pipeline_id) sets it.
C18_BothSpellings ==
    [][(last'.ev = "message" /\ last'.frame.ok /\ ~ShutdownRequested) =>
          /\ (last'.sock = mon.wsRef /\ ~last'.idChanged) =>
                \A d \in last'.frame.pipelineData \cup last'.frame.pipeline_data :
                    mon'.pipelineData = d
          /\ last'.sock = app.websocket =>
                \A id \in last'.frame.pipelineId \cup last'.frame.pipeline_id :
                    app'.pipelineId = id]_vars

\* ----------------------------------------------------------------- C19
\* C19: wsConnected is TRUE only while wsRef holds a socket that is open and
\* whose open event was handled (the handshake was sent); it is FALSE
\* whenever a reconnect timer is pending, after the watchdog tore the
\* connection down, and right after an identifier change.
C19_ConnectedNotStale ==
    ~ShutdownRequested =>
        /\ mon.wsConnected =>
              /\ mon.wsRef # 0
              /\ socks[mon.wsRef].readyState = "OPEN"
              /\ Len(socks[mon.wsRef].sent) = 1
        /\ ReconnectTimers # {} => ~mon.wsConnected
        /\ last.ev = "watchdog" => ~mon.wsConnected
        /\ (last.ev = "message" /\ last.idChanged) => ~mon.wsConnected

\* The server closed a socket that had opened: the indicator, TRUE since the
\* open, is FALSE again and the reconnect timer is pending.
C19_Witness ==
    /\ ~ShutdownRequested
    /\ last.ev = "close"
    /\ last.sock = mon.wsRef
    /\ Len(socks[mon.wsRef].sent) = 1
    /\ ReconnectTimers # {}
    /\ ~mon.wsConnected

\* ----------------------------------------------------------------- C20
\* C20: at most one watchdog and at most one reconnect timer are pending,
\* every pending timer is the one its ref holds, and a pending watchdog
\* watches the socket in wsRef.
C20_TimersHeld ==
    /\ Cardinality(WatchdogTimers) <= 1
    /\ Cardinality(ReconnectTimers) <= 1
    /\ \A t \in WatchdogTimers :
          t.id = mon.connectionTimeoutRef /\ t.sock = mon.wsRef
    /\ \A t \in ReconnectTimers : t.id = mon.reconnectTimeoutRef

\* A second monitor socket failed while connecting: its watchdog and the
\* reconnect timer are pending together.
C20_Witness ==
    /\ last.ev = "fail"
    /\ last.sock = mon.wsRef
    /\ mon.wsRef >= 3
    /\ Cardinality(WatchdogTimers) = 1
    /\ Cardinality(ReconnectTimers) = 1

====
